---- MODULE Spec2Model ----
(***************************************************************************)
(* A model of video_utils.py: the CatVideo class (constructor, timestamp   *)
(* list, frame fetch by index / by time / at random, the frame generator   *)
(* with its decoder child process and pipes) and get_frame_opencv.         *)
(*                                                                         *)
(* Time is counted in ticks of 0.05 s.  The external decoder is modelled   *)
(* by what its command line asks of it: seeking (ss), the read window (t), *)
(* the frame limit (vframes), raw rgb24 output and the showinfo log.  It   *)
(* is taken to run reliably unless decoderOk is FALSE.                     *)
(***************************************************************************)
EXTENDS Integers, Sequences, FiniteSets, TLC

(* ------------------------------ bounds --------------------------------- *)
MaxTick == 3        \* largest presentation timestamp, in ticks
MaxFrames == 2      \* most frames in a video
OutCap == 4         \* capacity of the stdout pipe, in bytes
ErrCap == 1         \* capacity of the stderr pipe, in log entries
MaxErr == ErrCap + 1   \* most log entries a streaming decoder writes

(* ------------------------- program constants --------------------------- *)
ReadWindow == 2     \* t=str(0.1): 0.1 s = 2 ticks
Channels == 3       \* rgb24: (height, width, 3)

None == <<>>
Some(v) == <<v>>
IsNone(x) == x = <<>>
Val(x) == x[1]

Min(a, b) == IF a < b THEN a ELSE b

(* ---------------------------- text <-> number --------------------------- *)
\* str(frame_time) and showinfo's printing of a timestamp: decimal digits
FormatTime(t) == IF t < 10 THEN <<t>> ELSE <<t \div 10, t % 10>>

RECURSIVE ParseDigits(_, _)
ParseDigits(txt, acc) ==
    IF txt = <<>> THEN acc ELSE ParseDigits(Tail(txt), acc * 10 + Head(txt))

\* float(text)
ParseFloat(txt) == ParseDigits(txt, 0)

(* ------------------------------ the video ------------------------------ *)
\* strictly increasing timestamp sequences of at most MaxFrames frames
IsIncreasing(s) == \A i \in 1..(Len(s) - 1) : s[i] < s[i + 1]

Videos ==
    { s \in UNION { [1..n -> 0..MaxTick] : n \in 0..MaxFrames } : IsIncreasing(s) }

FrameSize(w, h) == w * h * Channels

\* the rgb24 bytes of frame i (1-based) of a w x h video: every byte of the
\* stream differs from its neighbours, so chunks and pixels are told apart
RawFrame(i, w, h) ==
    [j \in 1..FrameSize(w, h) |-> ((i - 1) * FrameSize(w, h) + j) % 256]

RECURSIVE Concat(_, _, _, _)
Concat(i, n, w, h) ==
    IF i > n THEN <<>> ELSE RawFrame(i, w, h) \o Concat(i + 1, n, w, h)

\* np.frombuffer(b, np.uint8).reshape((h, w, 3)): row-major
Reshape(b, h, w) ==
    [r \in 1..h |-> [c \in 1..w |-> [ch \in 1..Channels |->
        b[((r - 1) * w + (c - 1)) * Channels + ch]]]]


(* -------------------------- the decoder's log --------------------------- *)
\* one entry of the decoder's stderr: showinfo's "pts_time:<text><sep>" or
\* any other text
PtsEntry(t) == [kind |-> "pts_time", text |-> FormatTime(t), sep |-> " "]
Noise == [kind |-> "other", text |-> <<>>, sep |-> ""]

\* br"pts_time:([\d.]+) " matches the entry
Matches(e) == e.kind = "pts_time" /\ e.text # <<>> /\ e.sep = " "

RECURSIVE PtsFound(_)
\* list(re.finditer(br"pts_time:([\d.]+) ", err)): the matching entries in order
PtsFound(err) ==
    IF err = <<>> THEN <<>>
    ELSE IF Matches(Head(err)) THEN <<Head(err)>> \o PtsFound(Tail(err))
    ELSE PtsFound(Tail(err))

\* [float(match.group(1)) for match in ...]
PtsFloats(found) == [i \in 1..Len(found) |-> ParseFloat(found[i].text)]

\* stderr of a run with vf="showinfo" at the default log level: a banner,
\* then one pts_time entry per frame in presentation order
ShowinfoErr(pts) == <<Noise>> \o [i \in 1..Len(pts) |-> PtsEntry(pts[i])]

\* the logs a streaming (iter_all_frames) decoder run may write
IterLogs ==
    {<<>>} \cup { [i \in 1..n |-> IF i = 1 THEN e ELSE Noise] :
                     n \in 1..MaxErr, e \in {Noise, PtsEntry(1)} }

\* the runs of a streaming decoder: <<log, stray bytes after the last frame>>
IterRuns == (IterLogs \X {0}) \cup {<< <<>>, 1 >>}

\* stdout of input(ss=..., t=0.1).output(vframes=1): the first frame whose
\* timestamp lies in [ss, ss + t), or nothing
SeekOutput(pts, ssText, w, h) ==
    LET ss == ParseFloat(ssText)
        hits == { i \in 1..Len(pts) : pts[i] >= ss /\ pts[i] < ss + ReadWindow }
    IN  IF hits = {} THEN <<>>
        ELSE RawFrame(CHOOSE i \in hits : \A j \in hits : i <= j, w, h)

\* stdout of the streaming run: every frame in order, then `extra` stray bytes
StdoutStream(pts, w, h, extra) ==
    Concat(1, Len(pts), w, h) \o SubSeq(RawFrame(Len(pts) + 1, w, h), 1, extra)

(* ------------------------------- state --------------------------------- *)
VARIABLES
    file, width, height, duration, vsync, loglevel, pts_list,  \* self.*
    attrs,       \* the attributes of self that have been assigned
    probe,       \* ffmpeg.probe(file)["streams"]
    framePts,    \* the video: the presentation timestamp of each frame
    decoderOk,   \* the decoder can still read the file
    ctor,        \* position inside __init__
    pc,          \* what the (single) caller thread is executing
    ret,         \* the outcome of the caller's most recent call
    setRuns,     \* set_pts_list runs started by get_frame_num
    gen,         \* the iter_all_frames generator
    process,     \* its decoder child process and the two pipes
    capture      \* get_frame_opencv's call frame and its VideoCapture

vars == <<file, width, height, duration, vsync, loglevel, pts_list, attrs,
          probe, framePts, decoderOk, ctor, pc, ret, setRuns, gen,
          process, capture>>

self == <<file, width, height, duration, vsync, loglevel, pts_list, attrs>>
env == <<probe, framePts>>

AllAttrs == {"file", "width", "height", "duration", "vsync", "loglevel", "pts_list"}

Dims == { <<2, 1>>, <<1, 2>> }          \* <<width, height>>
\* the stream duration ffprobe reports: up to the end of the last frame, each
\* frame lasting at least one tick
VideoDuration(pts) == IF pts = <<>> THEN 1 ELSE pts[Len(pts)] + 1
Times == 0..MaxTick

NoRet == [op |-> "", arg |-> 0, exc |-> "", val |-> None, time |-> 0]
Returned(op, arg, frame) ==
    [op |-> op, arg |-> arg, exc |-> "", val |-> Some(frame), time |-> 0]
Raised(op, arg, exc) ==
    [op |-> op, arg |-> arg, exc |-> exc, val |-> None, time |-> 0]

NoGen == [st |-> "none", in_bytes |-> <<>>, yielded |-> <<>>, eof |-> FALSE,
          err |-> None, exc |-> ""]
NoProcess == [st |-> "none", op |-> "idle", stream |-> <<>>, log |-> <<>>,
              outSent |-> 0, errSent |-> 0, errPiped |-> FALSE,
              stdout |-> <<>>, stderr |-> <<>>, kill_called |-> FALSE]
NoCapture == [st |-> "none", frame_number |-> 0, i |-> 0, grabbed |-> 0,
              ok |-> FALSE, ret |-> None]

VideoStream(w, h, rot, d) ==
    [codec_type |-> "video", width |-> w, height |-> h, rotate |-> rot,
     has_duration |-> d > 0, duration |-> FormatTime(d)]

\* the state after CatVideo(file) has returned
Init ==
    /\ file = "video" /\ vsync = 0 /\ loglevel = "error" /\ pts_list = None
    /\ \E d \in Dims : width = d[1] /\ height = d[2]
    /\ framePts \in Videos
    /\ duration = VideoDuration(framePts)
    /\ attrs = AllAttrs
    /\ probe = <<VideoStream(width, height, "notags", duration)>>
    /\ decoderOk = TRUE
    /\ ctor = "done" /\ pc = "idle" /\ ret = NoRet /\ setRuns = 0
    /\ gen = NoGen /\ process = NoProcess /\ capture = NoCapture

(* --------------------- fetch by time and by index ----------------------- *)
\* set_pts_list's assignment to self.pts_list
SetPtsListValue(pts) == PtsFloats(PtsFound(ShowinfoErr(pts)))

\* get_frame_time(frame_time), as the outcome record of the call `op(arg)`
GetFrameTime(op, arg, frame_time) ==
    IF ~decoderOk THEN Raised(op, arg, "ffmpeg.Error")
    ELSE LET out == SeekOutput(framePts, FormatTime(frame_time), width, height)
         IN  IF Len(out) = 0 THEN Raised(op, arg, "ValueError")
             ELSE Returned(op, arg, Reshape(out, height, width))

\* (variant: the list recomputed on every call)
NeedsPtsListAlways(p) == TRUE

\* the test that makes get_frame_num run set_pts_list
NeedsPtsList(p) == IsNone(p)

\* (variant: the list indexed from its end)
PtsAtFromEnd(p, frame) == p[Len(p) - frame]

\* pts_list[frame] for a non-negative frame (Python counts from 0)
PtsAt(p, frame) == p[frame + 1]

set_pts_list ==
    /\ pc = "idle"
    /\ IF decoderOk
       THEN /\ pts_list' = Some(SetPtsListValue(framePts))
            /\ ret' = [NoRet EXCEPT !.op = "set_pts_list"]
       ELSE /\ pts_list' = pts_list
            /\ ret' = Raised("set_pts_list", 0, "ffmpeg.Error")
    /\ UNCHANGED <<file, width, height, duration, vsync, loglevel, attrs, env,
                   decoderOk, ctor, pc, setRuns, gen, process, capture>>

get_frame_num(frame) ==
    /\ pc = "idle"
    /\ LET run == NeedsPtsList(pts_list)
           list == IF run /\ decoderOk THEN Some(SetPtsListValue(framePts))
                   ELSE pts_list
       IN  /\ setRuns' = IF run THEN Min(setRuns + 1, 2) ELSE setRuns
           /\ pts_list' = list
           /\ ret' = IF IsNone(list) THEN Raised("get_frame_num", frame, "ffmpeg.Error")
                     ELSE IF frame >= Len(Val(list))
                          THEN Raised("get_frame_num", frame, "IndexError")
                     ELSE GetFrameTime("get_frame_num", frame, PtsAt(Val(list), frame))
    /\ UNCHANGED <<file, width, height, duration, vsync, loglevel, attrs, env,
                   decoderOk, ctor, pc, gen, process, capture>>

get_frame_time(frame_time) ==
    /\ pc = "idle"
    /\ ret' = GetFrameTime("get_frame_time", frame_time, frame_time)
    /\ UNCHANGED <<self, env, decoderOk, ctor, pc, setRuns, gen, process,
                   capture>>

(* --------------------------- get_random_frame --------------------------- *)
\* the times np.random.random() * self.duration can take: [0, duration)
RandomTimes == 0..(duration - 1)

\* entering get_random_frame: the caller is inside the loop until it returns
RandomStart ==
    /\ pc = "idle"
    /\ pc' = "random"
    /\ ret' = [NoRet EXCEPT !.op = "get_random_frame"]
    /\ UNCHANGED <<self, env, decoderOk, ctor, setRuns, gen, process, capture>>

\* (variant: a bare except clause)
RetriedAny(exc) == exc # ""

\* what one iteration's except clause retries on
Retried(exc) == exc = "ValueError"

\* one iteration of the while loop with frame_time drawn as t
RandomTry(t) ==
    /\ pc = "random"
    /\ t \in RandomTimes
    /\ LET r == GetFrameTime("get_random_frame", 0, t)
       IN  IF Retried(r.exc)
           THEN /\ pc' = pc
                /\ ret' = [ret EXCEPT !.time = t]
           ELSE /\ pc' = "idle"
                /\ ret' = [r EXCEPT !.time = t]
    /\ UNCHANGED <<self, env, decoderOk, ctor, setRuns, gen, process, capture>>

(* --------------------- the decoder child process ------------------------ *)
\* run_async(pipe_stdout=True, pipe_stderr=piped): a child that will write
\* `stream` to its stdout pipe and `log` to its stderr
Launch(stream, log, piped) ==
    [NoProcess EXCEPT !.st = "running", !.stream = stream, !.log = log,
                      !.errPiped = piped]

\* process.kill(): ends a running child, no effect on one that has exited;
\* either way the child's pipes and unwritten output are gone with it
Kill(p) ==
    [NoProcess EXCEPT !.st = IF p.st = "running" THEN "killed" ELSE p.st,
                      !.kill_called = TRUE, !.stream = p.stream,
                      !.errPiped = p.errPiped]

\* the child writes to stdout as much of its remaining output as the pipe takes
DecOut ==
    /\ process.st = "running" /\ process.op = "idle"
    /\ process.outSent < Len(process.stream)
    /\ Len(process.stdout) < OutCap
    /\ LET n == Min(OutCap - Len(process.stdout),
                    Len(process.stream) - process.outSent)
       IN  process' = [process EXCEPT
               !.stdout = @ \o SubSeq(process.stream, process.outSent + 1,
                                      process.outSent + n),
               !.outSent = @ + n]
    /\ UNCHANGED <<self, env, decoderOk, ctor, pc, ret, setRuns, gen, capture>>

\* the child writes its next log entry: to the inherited stderr, or into the
\* pipe; on a full pipe it blocks in the write (nothing reads the pipe before
\* the child's stdout has reached end of file)
DecErr ==
    /\ process.st = "running" /\ process.op = "idle"
    /\ process.errSent < Len(process.log)
    /\ process' =
         IF ~process.errPiped
         THEN [process EXCEPT !.errSent = @ + 1]
         ELSE IF Len(process.stderr) < ErrCap
         THEN [process EXCEPT !.errSent = @ + 1,
                              !.stderr = Append(@, process.log[process.errSent + 1])]
         ELSE [process EXCEPT !.op = "err"]
    /\ UNCHANGED <<self, env, decoderOk, ctor, pc, ret, setRuns, gen, capture>>

\* the child exits once everything is written; its pipe ends then close
DecExit ==
    /\ process.st = "running" /\ process.op = "idle"
    /\ process.outSent = Len(process.stream)
    /\ process.errSent = Len(process.log)
    /\ process' = [process EXCEPT !.st = "exited"]
    /\ UNCHANGED <<self, env, decoderOk, ctor, pc, ret, setRuns, gen, capture>>

(* --------------------------- iter_all_frames ---------------------------- *)
Finished == {"done", "closed", "raised"}

\* pipe_stderr=(self.pts_list is None)
PipeStderr(p) == IsNone(p)

\* (variant: the generator ends without a finally clause)
FinallyNothing(p) == p

\* the finally clause
Finally(p) == Kill(p)

\* (variant: rows and columns exchanged in the reshape)
FrameOfTransposed(in_bytes, h, w) == Reshape(in_bytes, w, h)

\* the frame built from one full read
FrameOf(in_bytes, h, w) == Reshape(in_bytes, h, w)

\* how many bytes one process.stdout.read asks for
ReadSize(w, h) == w * h * 3

\* the statements after the loop, given self.pts_list and the stderr that
\* communicate() returned (None when stderr was not piped or not read):
\* the new self.pts_list and the exception raised ("" for none).  The list
\* comprehension iterates over match_list, a name bound nowhere.
AfterLoop(p, err) ==
    IF ~IsNone(p) \/ IsNone(err) THEN [pts_list |-> p, exc |-> ""]
    ELSE IF Len(PtsFound(Val(err))) > 0
         THEN [pts_list |-> p, exc |-> "NameError"]
         ELSE [pts_list |-> p, exc |-> ""]

\* calling iter_all_frames(): a generator object whose body has not started
GenCreate ==
    /\ pc = "idle"
    /\ gen.st \in Finished \cup {"none"}
    /\ gen' = [NoGen EXCEPT !.st = "created"]
    /\ process' = NoProcess
    /\ ret' = [NoRet EXCEPT !.op = "iter_all_frames"]
    /\ UNCHANGED <<self, env, decoderOk, ctor, pc, setRuns, capture>>

\* next(): the first one launches the decoder, every one enters the read
GenNext ==
    /\ pc = "idle"
    /\ \/ /\ gen.st = "created"
          /\ \E run \in IterRuns :
               process' = Launch(IF decoderOk
                                 THEN StdoutStream(framePts, width, height, run[2])
                                 ELSE <<>>,
                                 run[1], PipeStderr(pts_list))
       \/ /\ gen.st = "suspended"
          /\ process' = process
    /\ gen' = [gen EXCEPT !.st = "reading"]
    /\ pc' = "next"
    /\ ret' = [NoRet EXCEPT !.op = "next"]
    /\ UNCHANGED <<self, env, decoderOk, ctor, setRuns, capture>>

\* process.stdout.read(n) takes what the pipe holds, up to the bytes it still
\* needs; with n bytes it returns and the frame is yielded
GenRead ==
    /\ pc = "next" /\ gen.st = "reading"
    /\ process.stdout # <<>>
    /\ LET need == ReadSize(width, height) - Len(gen.in_bytes)
           n == Min(need, Len(process.stdout))
           got == gen.in_bytes \o SubSeq(process.stdout, 1, n)
       IN  /\ process' = [process EXCEPT
                            !.stdout = SubSeq(@, n + 1, Len(@))]
           /\ IF n = need
              THEN /\ gen' = [gen EXCEPT !.st = "suspended", !.in_bytes = <<>>,
                                !.yielded = Append(@, FrameOf(got, height, width))]
                   /\ pc' = "idle"
              ELSE /\ gen' = [gen EXCEPT !.in_bytes = got]
                   /\ pc' = pc
    /\ UNCHANGED <<self, env, decoderOk, ctor, ret, setRuns, capture>>

\* the read meets end of file: with no bytes the loop breaks and the
\* statements after it run; with fewer than n bytes reshape raises
GenEndOfStream ==
    /\ pc = "next" /\ gen.st = "reading"
    /\ process.stdout = <<>> /\ process.st = "exited"
    /\ IF gen.in_bytes = <<>>
       THEN LET err == IF IsNone(pts_list) /\ process.errPiped
                       THEN Some(process.stderr) ELSE None
                after == AfterLoop(pts_list, err)
            IN  /\ pts_list' = after.pts_list
                /\ gen' = [gen EXCEPT !.eof = TRUE, !.err = err,
                             !.exc = after.exc,
                             !.st = IF after.exc = "" THEN "done" ELSE "raised"]
                /\ ret' = Raised("next", 0, IF after.exc = "" THEN "StopIteration"
                                            ELSE after.exc)
       ELSE /\ pts_list' = pts_list
            /\ gen' = [gen EXCEPT !.st = "raised", !.exc = "ValueError"]
            /\ ret' = Raised("next", 0, "ValueError")
    /\ process' = Finally(process)
    /\ pc' = "idle"
    /\ UNCHANGED <<file, width, height, duration, vsync, loglevel, attrs, env,
                   decoderOk, ctor, setRuns, capture>>

\* close() (or garbage collection): GeneratorExit at the yield, re-raised,
\* then the finally clause; a generator that never started just ends
GenClose ==
    /\ pc = "idle"
    /\ gen.st \in {"created", "suspended"}
    /\ gen' = [gen EXCEPT !.st = "closed"]
    /\ process' = IF gen.st = "suspended" THEN Finally(process) ELSE process
    /\ ret' = [NoRet EXCEPT !.op = "close"]
    /\ UNCHANGED <<self, env, decoderOk, ctor, pc, setRuns, capture>>

(* ------------------------------ the caller ------------------------------ *)
Next ==
    \/ set_pts_list
    \/ \E frame \in 0..MaxFrames : get_frame_num(frame)
    \/ \E t \in Times : get_frame_time(t)
    \/ RandomStart
    \/ \E t \in Times : RandomTry(t)
    \/ GenCreate \/ GenNext \/ GenRead \/ GenEndOfStream \/ GenClose
    \/ DecOut \/ DecErr \/ DecExit

Spec == Init /\ [][Next]_vars

(* ------------------------------ __init__ -------------------------------- *)
AudioStream ==
    [codec_type |-> "audio", width |-> 0, height |-> 0, rotate |-> "notags",
     has_duration |-> TRUE, duration |-> FormatTime(1)]

\* rotate: "notags" = the stream has no "tags"; "norotate" = tags without
\* "rotate"; otherwise the value of tags["rotate"].  d = 0: no "duration" key
Streams ==
    {AudioStream} \cup
    { VideoStream(w, h, rot, d) :
        w \in 1..2, h \in 1..2,
        rot \in {"notags", "norotate", "0", "90", "180", "270"}, d \in {0, 2} }

Probes == UNION { [1..n -> Streams] : n \in 0..2 }

RECURSIVE FirstVideo(_)
\* next((stream for stream in streams if stream["codec_type"] == "video"), None)
FirstVideo(streams) ==
    IF streams = <<>> THEN None
    ELSE IF Head(streams).codec_type = "video" THEN Some(Head(streams))
    ELSE FirstVideo(Tail(streams))

\* (variant: any rotate tag swaps the sides)
RotatedAny(stream) == stream.rotate \notin {"notags", "norotate"}

\* the test guarding the swap of width and height
Rotated(stream) ==
    /\ stream.rotate \notin {"notags", "norotate"}
    /\ (stream.rotate = "90" \/ stream.rotate = "270")

\* before CatVideo(file): no attribute exists yet
InitCtor ==
    /\ file = "" /\ width = 0 /\ height = 0 /\ duration = 0 /\ vsync = 0
    /\ loglevel = "" /\ pts_list = None /\ attrs = {}
    /\ probe \in Probes
    /\ framePts = <<>>
    /\ decoderOk = TRUE
    /\ ctor = "new" /\ pc = "init" /\ ret = NoRet /\ setRuns = 0
    /\ gen = NoGen /\ process = NoProcess /\ capture = NoCapture

\* self.file = file; probe; pick the video stream; raise without one
CtorProbe ==
    /\ ctor = "new"
    /\ file' = "video"
    /\ attrs' = attrs \cup {"file"}
    /\ IF IsNone(FirstVideo(probe))
       THEN /\ ctor' = "raised"
            /\ ret' = Raised("__init__", 0, "ValueError")
       ELSE /\ ctor' = "found"
            /\ ret' = ret
    /\ UNCHANGED <<width, height, duration, vsync, loglevel, pts_list, env,
                   decoderOk, pc, setRuns, gen, process, capture>>

\* self.width, self.height from the stream, swapped for a rotated one
CtorSize ==
    /\ ctor = "found"
    /\ LET stream == Val(FirstVideo(probe))
       IN  IF Rotated(stream)
           THEN width' = stream.height /\ height' = stream.width
           ELSE width' = stream.width /\ height' = stream.height
    /\ attrs' = attrs \cup {"width", "height"}
    /\ ctor' = "sized"
    /\ UNCHANGED <<file, duration, vsync, loglevel, pts_list, env, decoderOk,
                   pc, ret, setRuns, gen, process, capture>>

\* self.duration = float(video_stream["duration"]): KeyError without the key
CtorDuration ==
    /\ ctor = "sized"
    /\ LET stream == Val(FirstVideo(probe))
       IN  IF stream.has_duration
           THEN /\ duration' = ParseFloat(stream.duration)
                /\ attrs' = attrs \cup {"duration"}
                /\ ctor' = "timed"
                /\ ret' = ret
           ELSE /\ UNCHANGED <<duration, attrs>>
                /\ ctor' = "raised"
                /\ ret' = Raised("__init__", 0, "KeyError")
    /\ UNCHANGED <<file, width, height, vsync, loglevel, pts_list, env,
                   decoderOk, pc, setRuns, gen, process, capture>>

\* self.vsync, self.loglevel, self.pts_list = None
CtorFinish ==
    /\ ctor = "timed"
    /\ vsync' = 0 /\ loglevel' = "error" /\ pts_list' = None
    /\ attrs' = attrs \cup {"vsync", "loglevel", "pts_list"}
    /\ ctor' = "done"
    /\ pc' = "idle"
    /\ UNCHANGED <<file, width, height, duration, env, decoderOk, ret, setRuns,
                   gen, process, capture>>

NextCtor == CtorProbe \/ CtorSize \/ CtorDuration \/ CtorFinish

SpecCtor == InitCtor /\ [][NextCtor]_vars

(* --------------------------- get_frame_opencv --------------------------- *)
\* the frame VideoCapture decodes for frame i (1-based) of the video
CvFrame(i) == Reshape(RawFrame(i, width, height), height, width)

\* how many times the loop calls capture.grab()
GrabCount(frame_number) == frame_number

\* capture = cv2.VideoCapture(filename): positioned before the first frame
CvOpen(frame_number) ==
    /\ capture.st \in {"none", "done"}
    /\ capture' = [NoCapture EXCEPT !.st = "loop", !.frame_number = frame_number]
    /\ UNCHANGED <<self, env, decoderOk, ctor, pc, ret, setRuns, gen, process>>

\* one capture.grab(): advances to the next frame if there is one
CvGrab ==
    /\ capture.st = "loop"
    /\ capture.i < GrabCount(capture.frame_number)
    /\ capture' = IF capture.grabbed < Len(framePts)
                  THEN [capture EXCEPT !.i = @ + 1, !.grabbed = @ + 1, !.ok = TRUE]
                  ELSE [capture EXCEPT !.i = @ + 1, !.ok = FALSE]
    /\ UNCHANGED <<self, env, decoderOk, ctor, pc, ret, setRuns, gen, process>>

\* return capture.retrieve(): decodes the frame the last grab() advanced to;
\* (False, None) when no grab has succeeded
CvRetrieve ==
    /\ capture.st = "loop"
    /\ capture.i = GrabCount(capture.frame_number)
    /\ capture' = [capture EXCEPT !.st = "done",
                     !.ret = IF capture.ok THEN Some(CvFrame(capture.grabbed))
                             ELSE None]
    /\ UNCHANGED <<self, env, decoderOk, ctor, pc, ret, setRuns, gen, process>>

NextCv == (\E n \in 0..(MaxFrames + 1) : CvOpen(n)) \/ CvGrab \/ CvRetrieve

SpecCv == Init /\ [][NextCv]_vars

(* ------------- get_random_frame with a decoder that may fail ------------ *)
\* the file becomes unreadable: every later decoder run exits with an error
DecoderBreaks ==
    /\ decoderOk
    /\ decoderOk' = FALSE
    /\ UNCHANGED <<self, env, ctor, pc, ret, setRuns, gen, process, capture>>

NextRandom ==
    \/ RandomStart
    \/ \E t \in Times : RandomTry(t)
    \/ \E t \in Times : get_frame_time(t)
    \/ DecoderBreaks

\* np.random.random() keeps producing every value of its range
FairSampling == \A t \in Times : WF_vars(RandomTry(t))

SpecRandom == Init /\ [][NextRandom]_vars /\ FairSampling

(* ------------------------------ properties ------------------------------ *)
\* chunk i (1-based) of the streaming decoder's stdout, as a frame
ChunkFrame(i) ==
    Reshape(SubSeq(process.stream, (i - 1) * FrameSize(width, height) + 1,
                   i * FrameSize(width, height)), height, width)

\* C1: the frames yielded so far are, in order, the frames built from the
\* first chunks of width*height*3 bytes of the decoder's stdout, each once;
\* when the read comes back empty on a stream of k whole chunks, exactly k
\* frames have been yielded and the generator has stopped.
C1_FramesInOrder ==
    LET k == Len(process.stream) \div FrameSize(width, height)
    IN  /\ Len(gen.yielded) <= k
        /\ \A i \in 1..Len(gen.yielded) : gen.yielded[i] = ChunkFrame(i)
        /\ gen.eof =>
             /\ Len(process.stream) = k * FrameSize(width, height)
             /\ Len(gen.yielded) = k
             /\ gen.st \in {"done", "raised"}

\* a generator that read two frames and then the empty read, stderr piped
C1_Witness ==
    gen.eof /\ Len(gen.yielded) = 2 /\ process.errPiped /\ width # height

\* C2: once a started generator has finished (exhausted, closed, or ended by
\* an exception) kill() has been called on its decoder and the decoder is no
\* longer running; a generator closed before it started has no decoder.
C2_DecoderKilled ==
    gen.st \in Finished =>
        /\ process.st \in {"none", "killed", "exited"}
        /\ process.st # "none" => process.kill_called
        /\ (gen.yielded # <<>> \/ gen.st # "closed") => process.kill_called

\* a generator closed after one yielded frame, its decoder killed mid-run
C2_Witness ==
    gen.st = "closed" /\ Len(gen.yielded) = 1 /\ process.st = "killed"

\* C3: get_frame_num(i) with 0 <= i < number of frames leaves pts_list equal
\* to the list set_pts_list computes and has the outcome of get_frame_time at
\* that list's entry i; get_frame_num runs set_pts_list only when pts_list is
\* None at the call.
C3_FrameNumByPts ==
    /\ [](ret.op = "get_frame_num" /\ ret.arg < Len(framePts) =>
            /\ pts_list = Some(SetPtsListValue(framePts))
            /\ ret = GetFrameTime("get_frame_num", ret.arg,
                                  SetPtsListValue(framePts)[ret.arg + 1]))
    /\ [][setRuns' # setRuns => IsNone(pts_list) /\ ret'.op = "get_frame_num"]_vars

\* get_frame_num(1) returned the second frame after computing the list itself
C3_Witness ==
    /\ ret.op = "get_frame_num" /\ ret.arg = 1 /\ ret.exc = ""
    /\ setRuns = 1 /\ Len(framePts) = 2
    /\ ret.val = Some(Reshape(RawFrame(2, width, height), height, width))

\* C4: get_frame_time(frame_time) returns a frame of shape (height, width, 3)
\* whenever some frame has a timestamp >= frame_time, and raises ValueError
\* exactly when none has; the object's attributes are as before.
C4_FrameWheneverLater ==
    ret.op = "get_frame_time" =>
        LET later == \E i \in 1..Len(framePts) : framePts[i] >= ret.arg
        IN  /\ later => /\ ret.exc = ""
                        /\ Len(Val(ret.val)) = height
                        /\ \A r \in 1..height : Len(Val(ret.val)[r]) = width
            /\ ret.exc = "ValueError" <=> ~later

\* C5: get_frame_opencv(filename, frame_number) returns the frame at
\* zero-based index frame_number for every 0 <= frame_number < number of
\* frames.
C5_OpencvIndexedFrame ==
    (capture.st = "done" /\ capture.frame_number < Len(framePts)) =>
        capture.ret = Some(CvFrame(capture.frame_number + 1))

\* C6: without a video stream the constructor raises ValueError with no
\* dimension, duration or pts_list attribute set, and ValueError is raised in
\* no other case; with a video stream, a completed construction has pts_list
\* None and the first video stream's width and height, exchanged exactly when
\* its rotate tag is "90" or "270".
C6_Construction ==
    LET v == FirstVideo(probe)
    IN  /\ (IsNone(v) /\ ctor # "new") =>
               /\ ctor = "raised" /\ ret.exc = "ValueError"
               /\ attrs \cap {"width", "height", "duration", "pts_list"} = {}
        /\ (ret.op = "__init__" /\ ret.exc = "ValueError") => IsNone(v)
        /\ (~IsNone(v) /\ ctor = "done") =>
               /\ attrs = AllAttrs /\ IsNone(pts_list)
               /\ <<width, height>> =
                    IF Val(v).rotate \in {"90", "270"}
                    THEN <<Val(v).height, Val(v).width>>
                    ELSE <<Val(v).width, Val(v).height>>

\* a construction completed on <<audio, video rotated by 270>>, sides exchanged
C6_Witness ==
    /\ ctor = "done" /\ Len(probe) = 2 /\ probe[1].codec_type = "audio"
    /\ probe[2].rotate = "270" /\ probe[2].width = 2 /\ probe[2].height = 1
    /\ width = 1 /\ height = 2

\* C7: right after an exhaustion that read the decoder's stderr: if it held a
\* "pts_time:<number> " entry the generator finished normally and pts_list is
\* the list of those timestamps in order, otherwise pts_list is still None.
C7_ExhaustionStoresPts ==
    (ret.op = "next" /\ gen.eof /\ ~IsNone(gen.err)) =>
        IF Len(PtsFound(Val(gen.err))) > 0
        THEN /\ gen.st = "done"
             /\ pts_list = Some(PtsFloats(PtsFound(Val(gen.err))))
        ELSE IsNone(pts_list)

AllTimesFail ==
    \A t \in RandomTimes : GetFrameTime("get_random_frame", 0, t).exc = "ValueError"

SomeTimeYields ==
    \E t \in RandomTimes : GetFrameTime("get_random_frame", 0, t).exc = ""

\* C9: get_random_frame goes round its loop again only after a ValueError of
\* get_frame_time at the drawn time; it leaves the loop either returning the
\* (time, frame) pair of a successful get_frame_time at a time in
\* [0, duration) or with an exception other than ValueError; it never leaves
\* while every time fails with ValueError; under fair sampling it leaves once
\* some time yields a frame.
C9_RandomFrame ==
    /\ [][(pc = "random" /\ pc' = "random" /\ ret' # ret) =>
            /\ ret'.time \in RandomTimes
            /\ GetFrameTime("get_random_frame", 0, ret'.time).exc = "ValueError"]_vars
    /\ [][(pc = "random" /\ pc' # "random") =>
            /\ ret'.time \in RandomTimes
            /\ ret' = [GetFrameTime("get_random_frame", 0, ret'.time)
                          EXCEPT !.time = ret'.time]
            /\ ret'.exc # "ValueError"]_vars
    /\ [][(pc = "random" /\ AllTimesFail) => pc' = "random"]_vars
    /\ ((pc = "random" /\ SomeTimeYields) ~> (pc = "idle"))

\* get_random_frame returned a frame at a time other than 0 from a video in
\* which some other time fails
C9_Witness ==
    /\ pc = "idle" /\ ret.op = "get_random_frame" /\ ret.exc = ""
    /\ ret.time > 0 /\ ~IsNone(ret.val)
    /\ \E t \in RandomTimes :
          GetFrameTime("get_random_frame", 0, t).exc = "ValueError"

\* C10: the state where the decoder is blocked writing to a full stderr pipe
\* while the generator is blocked reading an empty stdout pipe is unreachable.
C10_NoPipeDeadlock ==
    ~ ( /\ pc = "next" /\ gen.st = "reading"
        /\ process.st = "running" /\ process.op = "err"
        /\ process.stdout = <<>> )

====
